---- MODULE Spec2Model ----
(***************************************************************************)
(* 4-up cut-and-stack imposition (src/app.py, create_4up_cut_stack_pdf)    *)
(* as a state machine, together with the double-sided planner variants     *)
(* described in spec.md section 4.2 (modes B and C).                       *)
(*                                                                         *)
(* Python floats are modelled as binary floating-point numbers with        *)
(* Precision significant bits, unbounded exponent and round-to-nearest,    *)
(* ties-to-even: a value is [m |-> mantissa, e |-> exponent] = m * 2^e,    *)
(* with m = 0 or 2^(Precision-1) <= |m| < 2^Precision.                     *)
(***************************************************************************)
EXTENDS Integers, Sequences, FiniteSets, TLC

VARIABLES pc, num_pages, total_sheets, sheet, q, output_pdf, drawn, skipped,
          error, src, target_rect, new_rect,
          mode, sheets_total, gap, j, slot

vars == <<pc, num_pages, total_sheets, sheet, q, output_pdf, drawn, skipped,
          error, src, target_rect, new_rect,
          mode, sheets_total, gap, j, slot>>

modeAVars == <<total_sheets, sheet, q, output_pdf, drawn, skipped,
               error, src, target_rect, new_rect>>

plannerVars == <<mode, sheets_total, gap, j, slot>>

----------------------------------------------------------------------------
(* Bounds of the model *)

\* largest page count of an uploaded document (mode A)
MaxPages == 13

\* largest page count handed to the double-sided planner (modes B, C)
MaxPlanPages == 17

\* significant bits of the modelled floating-point format
Precision == 11

----------------------------------------------------------------------------
(* Floating-point arithmetic *)

RECURSIVE Pow2(_)
Pow2(k) == IF k = 0 THEN 1 ELSE 2 * Pow2(k - 1)

Abs(x) == IF x < 0 THEN -x ELSE x

Sign(x) == IF x < 0 THEN -1 ELSE IF x = 0 THEN 0 ELSE 1

\* number of binary digits of a natural number
RECURSIVE BitLen(_)
BitLen(n) == IF n = 0 THEN 0 ELSE 1 + BitLen(n \div 2)

Float(m, e) == [m |-> m, e |-> e]

Zero == Float(0, 0)

\* the integer nearest to n/d (n >= 0, d > 0), ties to the even integer
RoundDiv(n, d) ==
    LET quo == n \div d
        rem == n % d
    IN  IF 2 * rem > d \/ (2 * rem = d /\ quo % 2 = 1) THEN quo + 1 ELSE quo

\* the float nearest to (n/d) * 2^e, for an integer n and d > 0
FRound(n, d, e) ==
    IF n = 0 THEN Zero
    ELSE LET a   == Abs(n)
             t   == BitLen(a) - BitLen(d)
             ge  == IF t >= 0 THEN a >= d * Pow2(t) ELSE a * Pow2(-t) >= d
             lg  == IF ge THEN t ELSE t - 1
             k   == lg - (Precision - 1)
             mnt == IF k >= 0 THEN RoundDiv(a, d * Pow2(k))
                              ELSE RoundDiv(a * Pow2(-k), d)
         IN  IF mnt = Pow2(Precision)
                THEN Float(Sign(n) * Pow2(Precision - 1), e + k + 1)
                ELSE Float(Sign(n) * mnt, e + k)

FromInt(n) == FRound(n, 1, 0)

FNeg(a) == Float(-a.m, a.e)

FAdd(a, b) ==
    IF a.m = 0 THEN b
    ELSE IF b.m = 0 THEN a
    ELSE LET hi == IF a.e >= b.e THEN a ELSE b
             lo == IF a.e >= b.e THEN b ELSE a
         IN  IF hi.e - lo.e > Precision + 2 THEN hi
             ELSE FRound(hi.m * Pow2(hi.e - lo.e) + lo.m, 1, lo.e)

FSub(a, b) == FAdd(a, FNeg(b))

FMul(a, b) == FRound(a.m * b.m, 1, a.e + b.e)

\* b is not zero
FDiv(a, b) == FRound(Sign(b.m) * a.m, Abs(b.m), a.e - b.e)

\* a <= b
FLe(a, b) ==
    IF Sign(a.m) # Sign(b.m) THEN Sign(a.m) < Sign(b.m)
    ELSE IF a.m = 0 THEN TRUE
    ELSE IF a.m > 0 THEN a.e < b.e \/ (a.e = b.e /\ a.m <= b.m)
    ELSE a.e > b.e \/ (a.e = b.e /\ a.m <= b.m)

FMin(a, b) == IF FLe(a, b) THEN a ELSE b

----------------------------------------------------------------------------
(* Geometry *)

Rect(x0, y0, x1, y1) == [x0 |-> x0, y0 |-> y0, x1 |-> x1, y1 |-> y1]

NoRect == Rect(Zero, Zero, Zero, Zero)

Width(r) == FSub(r.x1, r.x0)

Height(r) == FSub(r.y1, r.y0)

A4_WIDTH == FromInt(595)

A4_HEIGHT == FromInt(842)

margin == FromInt(10)

Two == FromInt(2)

quadrant_rects ==
    << Rect(margin,
            FAdd(FDiv(A4_HEIGHT, Two), margin),
            FSub(FDiv(A4_WIDTH, Two), margin),
            FSub(A4_HEIGHT, margin)),
       Rect(FAdd(FDiv(A4_WIDTH, Two), margin),
            FAdd(FDiv(A4_HEIGHT, Two), margin),
            FSub(A4_WIDTH, margin),
            FSub(A4_HEIGHT, margin)),
       Rect(margin,
            margin,
            FSub(FDiv(A4_WIDTH, Two), margin),
            FSub(FDiv(A4_HEIGHT, Two), margin)),
       Rect(FAdd(FDiv(A4_WIDTH, Two), margin),
            margin,
            FSub(A4_WIDTH, margin),
            FSub(FDiv(A4_HEIGHT, Two), margin)) >>

\* the scaled, centered destination rectangle of a src_width x src_height
\* page inside target (both source dimensions are not zero)
FitCentered(src_width, src_height, target) ==
    LET scale      == FMin(FDiv(Width(target), src_width),
                           FDiv(Height(target), src_height))
        new_width  == FMul(src_width, scale)
        new_height == FMul(src_height, scale)
        new_x0     == FAdd(target.x0, FDiv(FSub(Width(target), new_width), Two))
        new_y0     == FAdd(target.y0, FDiv(FSub(Height(target), new_height), Two))
    IN  Rect(new_x0, new_y0, FAdd(new_x0, new_width), FAdd(new_y0, new_height))

\* page sizes (width, height) an input page can have, in points
SrcDims == { <<300, 600>>, <<595, 842>>, <<300, 784>>, <<300, 756>>,
             <<0, 600>>, <<300, 0>> }

----------------------------------------------------------------------------
(* Mode A: create_4up_cut_stack_pdf *)

\* mutant of Ceil: the quotient rounded down, plus one
CeilFloorPlusOne(n, d) == n \div d + 1

\* math.ceil(n / d) for n >= 0, d > 0
Ceil(n, d) == IF n % d = 0 THEN n \div d ELSE n \div d + 1

\* mutant of PageIndex: the quadrant stride is the quadrant count
PageIndexStride4(s, quad, sheets) == s + quad * 4

\* mutant of PageIndex: sheets filled one after the other (row-major)
PageIndexRowMajor(s, quad, sheets) == s * 4 + quad

\* mutant of PageIndex: quadrants taken in reverse order
PageIndexReversed(s, quad, sheets) == s + (3 - quad) * sheets

PageIndex(s, quad, sheets) == s + quad * sheets

\* mutant of InRange: the bound check is off by one
InRangeInclusive(page_index, n) == page_index <= n

InRange(page_index, n) == page_index < n

Init ==
    /\ pc = "open"
    /\ num_pages = 0
    /\ total_sheets = 0
    /\ sheet = 0
    /\ q = 0
    /\ output_pdf = << >>
    /\ drawn = {}
    /\ skipped = {}
    /\ error = "none"
    /\ src = <<0, 0>>
    /\ target_rect = NoRect
    /\ new_rect = NoRect
    /\ mode = "A"
    /\ sheets_total = 0
    /\ gap = 0
    /\ j = 0
    /\ slot = {}

\* the input PDF is opened, its page count read, the sheet count computed
\* and the empty output document prepared
Open ==
    /\ pc = "open"
    /\ \E n \in 0..MaxPages :
          /\ num_pages' = n
          /\ total_sheets' = Ceil(n, 4)
    /\ output_pdf' = << >>
    /\ sheet' = 0
    /\ pc' = "sheet_loop"
    /\ UNCHANGED <<q, drawn, skipped, error, src, target_rect, new_rect>>
    /\ UNCHANGED plannerVars

\* for sheet in range(total_sheets): a new blank A4 page is created
NewSheet ==
    /\ pc = "sheet_loop"
    /\ sheet < total_sheets
    /\ output_pdf' = Append(output_pdf, sheet)
    /\ q' = 0
    /\ pc' = "quad_loop"
    /\ UNCHANGED <<num_pages, total_sheets, sheet, drawn, skipped, error, src,
                   target_rect, new_rect>>
    /\ UNCHANGED plannerVars

\* a quadrant whose page index is in range: the page is loaded, fitted into
\* the quadrant and drawn; a zero width or height raises ZeroDivisionError
DrawQuadrant ==
    /\ pc = "quad_loop"
    /\ q < 4
    /\ InRange(PageIndex(sheet, q, total_sheets), num_pages)
    /\ \E dims \in SrcDims :
          /\ src' = dims
          /\ target_rect' = quadrant_rects[q + 1]
          /\ IF dims[1] = 0 \/ dims[2] = 0
                THEN /\ error' = "ZeroDivisionError"
                     /\ pc' = "error"
                     /\ UNCHANGED <<new_rect, drawn, q>>
                ELSE /\ new_rect' = FitCentered(FromInt(dims[1]), FromInt(dims[2]),
                                                quadrant_rects[q + 1])
                     /\ drawn' = drawn \cup
                                   {<<sheet, q, PageIndex(sheet, q, total_sheets)>>}
                     /\ q' = q + 1
                     /\ UNCHANGED <<error, pc>>
    /\ UNCHANGED <<num_pages, total_sheets, sheet, output_pdf, skipped>>
    /\ UNCHANGED plannerVars

\* a quadrant whose page index is past the last page is left empty
SkipQuadrant ==
    /\ pc = "quad_loop"
    /\ q < 4
    /\ ~InRange(PageIndex(sheet, q, total_sheets), num_pages)
    /\ skipped' = skipped \cup {<<sheet, q>>}
    /\ q' = q + 1
    /\ UNCHANGED <<pc, num_pages, total_sheets, sheet, output_pdf, drawn, error,
                   src, target_rect, new_rect>>
    /\ UNCHANGED plannerVars

\* the four quadrants of the sheet are done: next sheet
EndSheet ==
    /\ pc = "quad_loop"
    /\ q = 4
    /\ sheet' = sheet + 1
    /\ pc' = "sheet_loop"
    /\ UNCHANGED <<num_pages, total_sheets, q, output_pdf, drawn, skipped, error,
                   src, target_rect, new_rect>>
    /\ UNCHANGED plannerVars

\* all sheets are done: the output document is written and returned.
\* Serialising a document is the library's business; for a document without
\* pages the library may return bytes or raise its own error.
WriteOutput ==
    /\ pc = "sheet_loop"
    /\ sheet >= total_sheets
    /\ \/ /\ pc' = "done"
          /\ UNCHANGED error
       \/ /\ Len(output_pdf) = 0
          /\ pc' = "error"
          /\ error' = "LibraryError"
    /\ UNCHANGED <<num_pages, total_sheets, sheet, q, output_pdf, drawn, skipped,
                   src, target_rect, new_rect>>
    /\ UNCHANGED plannerVars

Next ==
    \/ Open
    \/ NewSheet
    \/ DrawQuadrant
    \/ SkipQuadrant
    \/ EndSheet
    \/ WriteOutput

Spec == Init /\ [][Next]_vars

----------------------------------------------------------------------------
(* Modes B and C: the double-sided planner of spec.md section 4.2 *)

EffectivePages(n) == IF n % 2 = 1 THEN n + 1 ELSE n

SheetsTotal(n) == Ceil(EffectivePages(n), 8)

Gap(sheets) == 2 * sheets - 1

FrontBase(sh) == 2 * sh + 1

BackBase(sh) == 2 * sh + 2

\* 1-based mini-page numbers of the front side, in quadrant order
FrontNumbers(sh, g) == [quad \in 0..3 |-> FrontBase(sh) + quad * g]

\* 1-based mini-page numbers of the back side, in quadrant order
BackNumbers(md, sh, g) ==
    IF md = "C"
       THEN [quad \in 0..3 |->
               CASE quad = 0 -> BackBase(sh) + g
                 [] quad = 1 -> BackBase(sh)
                 [] quad = 2 -> BackBase(sh) + 3 * g
                 [] quad = 3 -> BackBase(sh) + 2 * g]
       ELSE [quad \in 0..3 |-> BackBase(sh) + quad * g]

\* the bound slots of one side: (sheet, side, quadrant, zero-based page)
SideSlots(sh, side, numbers, n) ==
    { <<sh, side, quad, numbers[quad] - 1>> : quad \in {k \in 0..3 : numbers[k] <= n} }

InitPlanner ==
    /\ pc = "plan"
    /\ mode \in {"B", "C"}
    /\ num_pages \in 1..MaxPlanPages
    /\ sheets_total = 0
    /\ gap = 0
    /\ j = 0
    /\ slot = {}
    /\ total_sheets = 0
    /\ sheet = 0
    /\ q = 0
    /\ output_pdf = << >>
    /\ drawn = {}
    /\ skipped = {}
    /\ error = "none"
    /\ src = <<0, 0>>
    /\ target_rect = NoRect
    /\ new_rect = NoRect

PlanSheets ==
    /\ pc = "plan"
    /\ sheets_total' = SheetsTotal(num_pages)
    /\ gap' = Gap(SheetsTotal(num_pages))
    /\ j' = 0
    /\ pc' = "front"
    /\ UNCHANGED <<mode, num_pages, slot>>
    /\ UNCHANGED modeAVars

PlanFront ==
    /\ pc = "front"
    /\ j < sheets_total
    /\ slot' = slot \cup SideSlots(j, "front", FrontNumbers(j, gap), num_pages)
    /\ pc' = "back"
    /\ UNCHANGED <<mode, num_pages, sheets_total, gap, j>>
    /\ UNCHANGED modeAVars

PlanBack ==
    /\ pc = "back"
    /\ slot' = slot \cup SideSlots(j, "back", BackNumbers(mode, j, gap), num_pages)
    /\ j' = j + 1
    /\ pc' = "front"
    /\ UNCHANGED <<mode, num_pages, sheets_total, gap>>
    /\ UNCHANGED modeAVars

PlanDone ==
    /\ pc = "front"
    /\ j >= sheets_total
    /\ pc' = "planned"
    /\ UNCHANGED <<mode, num_pages, sheets_total, gap, j, slot>>
    /\ UNCHANGED modeAVars

NextPlanner ==
    \/ PlanSheets
    \/ PlanFront
    \/ PlanBack
    \/ PlanDone

SpecPlanner == InitPlanner /\ [][NextPlanner]_vars

----------------------------------------------------------------------------
(* Properties *)

\* the slots the page p is drawn in
SlotsOf(p) == {d \in drawn : d[3] = p}

\* the page drawn in slot (s, quad), or -1 when the slot holds no page
SlotContent(s, quad) ==
    IF \E d \in drawn : d[1] = s /\ d[2] = quad
       THEN (CHOOSE d \in drawn : d[1] = s /\ d[2] = quad)[3]
       ELSE -1

\* the pile after cutting: strip 0 on strip 1 on strip 2 on strip 3, each
\* strip holding its quadrant of sheets 0..total_sheets-1 in sheet order
Stacked ==
    [k \in 1..(4 * total_sheets) |->
        SlotContent((k - 1) % total_sheets, (k - 1) \div total_sheets)]

\* inner lies inside outer on all four edges
Contained(inner, outer) ==
    /\ FLe(outer.x0, inner.x0)
    /\ FLe(outer.y0, inner.y0)
    /\ FLe(inner.x1, outer.x1)
    /\ FLe(inner.y1, outer.y1)

\* C1: in mode A every source page index in [0, num_pages) is bound to
\* exactly one slot (sheet, quadrant): no page is drawn in two slots, only
\* pages of the document are drawn, and when the run is done none is missing.
Thm_C1 ==
    /\ \A d1, d2 \in drawn : d1[3] = d2[3] => d1 = d2
    /\ \A d \in drawn : /\ d[3] \in 0..(num_pages - 1)
                        /\ d[1] \in 0..(total_sheets - 1)
                        /\ d[2] \in 0..3
    /\ (pc = "done" /\ num_pages >= 1) =>
          \A p \in 0..(num_pages - 1) : Cardinality(SlotsOf(p)) = 1

Wit_C1 == pc = "done" /\ num_pages = 11 /\ Cardinality(drawn) = 11

\* C2: in mode A the slot (s, q) holds page s + q*total_sheets when that
\* index is below num_pages and is left empty otherwise; 8 pages give
\* sheet 0 = [0,2,4,6] and sheet 1 = [1,3,5,7]; 1 page gives quadrant 0 =
\* page 0 and quadrants 1-3 empty.
Thm_C2 ==
    /\ \A d \in drawn : /\ d[3] = d[1] + d[2] * total_sheets
                        /\ d[3] < num_pages
                        /\ <<d[1], d[2]>> \notin skipped
    /\ \A e \in skipped : e[1] + e[2] * total_sheets >= num_pages
    /\ pc = "done" =>
          \A s \in 0..(total_sheets - 1), quad \in 0..3 :
              \/ <<s, quad, s + quad * total_sheets>> \in drawn
              \/ <<s, quad>> \in skipped
    /\ (pc = "done" /\ num_pages = 8) =>
          /\ drawn = { <<0, 0, 0>>, <<0, 1, 2>>, <<0, 2, 4>>, <<0, 3, 6>>,
                       <<1, 0, 1>>, <<1, 1, 3>>, <<1, 2, 5>>, <<1, 3, 7>> }
          /\ skipped = {}
    /\ (pc = "done" /\ num_pages = 1) =>
          /\ drawn = { <<0, 0, 0>> }
          /\ skipped = { <<0, 1>>, <<0, 2>>, <<0, 3>> }

Wit_C2 == pc = "done" /\ num_pages = 8 /\ <<1, 3, 7>> \in drawn

\* C3: the number of output sheets is ceil(num_pages/4), the least S with
\* 4*S >= num_pages, and exactly that many output pages are added, one per
\* sheet index in increasing order.
Thm_C3 ==
    /\ \A i \in 1..Len(output_pdf) : output_pdf[i] = i - 1
    /\ Len(output_pdf) <= total_sheets
    /\ pc # "open" => /\ 4 * total_sheets >= num_pages
                      /\ 4 * (total_sheets - 1) < num_pages
    /\ pc = "done" => Len(output_pdf) = total_sheets

Wit_C3 == pc = "done" /\ num_pages = 9 /\ output_pdf = <<0, 1, 2>>

\* C4: cutting the printed sheets into four strips and stacking strip 0 on
\* strip 1 on strip 2 on strip 3 gives the pages 0, 1, ..., num_pages-1 in
\* ascending order, every empty slot coming after the last page.
Thm_C4 ==
    (pc = "done" /\ num_pages >= 1) =>
        \A k \in 1..(4 * total_sheets) :
            Stacked[k] = IF k <= num_pages THEN k - 1 ELSE -1

Wit_C4 ==
    /\ pc = "done"
    /\ num_pages = 10
    /\ Stacked[10] = 9
    /\ Stacked[11] = -1

\* C5: the destination rectangle computed for a source page of positive
\* width and height lies inside the target quadrant rectangle on all four
\* edges.
CE_C5 ==
    (src[1] > 0 /\ src[2] > 0 /\ target_rect # NoRect) =>
        Contained(new_rect, target_rect)

\* C6: when num_pages <= 0 the run ends with an InvalidInput error instead
\* of completing normally with zero sheets.
CE_C6 ==
    (num_pages <= 0 /\ pc \in {"done", "error"}) => error = "InvalidInput"

\* C7: a bound source page of width <= 0 or height <= 0 makes the run report
\* InvalidSourcePage, and when the error is raised no output sheet has been
\* created and no page has been drawn.
CE_C7 ==
    (num_pages >= 1 /\ pc = "error" /\ (src[1] <= 0 \/ src[2] <= 0)) =>
        /\ error = "InvalidSourcePage"
        /\ Len(output_pdf) = 0
        /\ drawn = {}

\* C8: in modes B and C every source page index in [0, num_pages) appears
\* in exactly one slot over all sheets, both sides and all four quadrants.
CE_C8 ==
    pc = "planned" =>
        \A p \in 0..(num_pages - 1) :
            Cardinality({sl \in slot : sl[4] = p}) = 1

\* C9 as stated: every slot whose computed index is >= num_pages lies on the
\* last sheet, sheet total_sheets-1, is left empty and raises no error.
CE_C9 ==
    \A e \in skipped : e[1] = total_sheets - 1

\* C9 as amended: every slot whose computed index is >= num_pages is left
\* empty and raises no error; there are 4*total_sheets - num_pages <= 3 such
\* slots, each in a quadrant q >= 1 of one of the last three sheets.
Thm_C9 ==
    /\ \A e \in skipped :
          /\ e[1] + e[2] * total_sheets >= num_pages
          /\ ~ \E d \in drawn : d[1] = e[1] /\ d[2] = e[2]
          /\ e[1] >= total_sheets - 3
          /\ e[2] >= 1
    /\ Cardinality(skipped) <= 3
    /\ pc = "done" => Cardinality(skipped) = 4 * total_sheets - num_pages
    /\ error # "none" => /\ <<sheet, q>> \notin skipped
                         /\ sheet + q * total_sheets < num_pages \/ num_pages = 0

Wit_C9 ==
    /\ pc = "done"
    /\ num_pages = 13
    /\ skipped = { <<3, 3>>, <<2, 3>>, <<1, 3>> }

\* C10: in mode A no created sheet is blank: quadrant 0 of every sheet holds
\* a page, and the quadrants that hold a page are a prefix of 0..3.
Thm_C10 ==
    /\ \A e \in skipped : e[2] >= 1
    /\ \A e \in skipped, d \in drawn : d[1] = e[1] => d[2] < e[2]
    /\ (pc = "done" /\ num_pages >= 1) =>
          \A s \in 0..(total_sheets - 1) :
              /\ s < num_pages
              /\ <<s, 0, s>> \in drawn
    /\ pc = "done" =>
          \A e \in skipped : \A quad \in e[2]..3 : <<e[1], quad>> \in skipped

Wit_C10 ==
    /\ pc = "done"
    /\ num_pages = 6
    /\ <<0, 2, 4>> \in drawn
    /\ <<0, 3>> \in skipped

====
